---- MODULE Spec2Model ----
(***************************************************************************)
(* Bookkeeping assistant: payee normalisation (utils.normalize_payee), the *)
(* vendor resolver (llm.normalize_payees), the persisted ledger            *)
(* (utils.save_table / utils.load_existing_table), vendor propagation      *)
(* (utils.propagate_vendor_info) and the categorisation run (app.main).    *)
(*                                                                         *)
(* Strings the code inspects character by character (payee memos) are      *)
(* sequences of one-character strings; the regular expressions of          *)
(* normalize_payee are written out as scans over those sequences.          *)
(***************************************************************************)
EXTENDS Integers, Sequences, FiniteSets, TLC

VARIABLES
    fs,          \* the data/ directory: path -> CSV file content, or NoFile
    pc,          \* position of the running call: "idle", "groups", "rows", "called", ...
    data,        \* main: the incoming statement table (after lines 21-33)
    existing,    \* main: the in-memory ledger `existing`
    unprocessed, \* main: unprocessed_data (line 36)
    todo,        \* main: group keys the loop of line 41 has still to visit
    cur,         \* main: the group being handled (payee, rows, defaults, row index)
    mapping,     \* what llm.normalize_payees returned inside load_existing_table
    hist,        \* history of the session: ledger length at load, batches ingested, decisions
    args,        \* arguments of the call under study (main: data, account_type)
    ret          \* its return value

vars == <<fs, pc, data, existing, unprocessed, todo, cur, mapping, hist, args, ret>>

None == "None"
NaN == "NaN"

(***************************************************************************)
(* Characters and Python's str / re primitives                             *)
(***************************************************************************)
Digit == {"0", "1", "2", "3", "4", "5", "6", "7", "8", "9"}

LowerSeq ==
    <<"a", "b", "c", "d", "e", "f", "g", "h", "i", "j", "k", "l", "m",
      "n", "o", "p", "q", "r", "s", "t", "u", "v", "w", "x", "y", "z">>

UpperSeq ==
    <<"A", "B", "C", "D", "E", "F", "G", "H", "I", "J", "K", "L", "M",
      "N", "O", "P", "Q", "R", "S", "T", "U", "V", "W", "X", "Y", "Z">>

Letter == {LowerSeq[i] : i \in 1..Len(LowerSeq)} \cup {UpperSeq[i] : i \in 1..Len(UpperSeq)}

\* \s of the re module, over the characters modelled
IsSpace(c) == c = " "

\* \w of the re module: what \b separates from everything else
IsWord(c) == c \in Digit \/ c \in Letter \/ c = "_"

Min(S) == CHOOSE x \in S : \A y \in S : x <= y

Max(S) == CHOOSE x \in S : \A y \in S : x >= y

\* str.upper()
upper(s) ==
    [i \in 1..Len(s) |->
        IF \E k \in 1..Len(LowerSeq) : LowerSeq[k] = s[i]
        THEN UpperSeq[CHOOSE k \in 1..Len(LowerSeq) : LowerSeq[k] = s[i]]
        ELSE s[i]]

\* str.strip()
strip(s) ==
    LET keep == {i \in 1..Len(s) : ~IsSpace(s[i])}
    IN  IF keep = {} THEN <<>> ELSE SubSeq(s, Min(keep), Max(keep))

\* str.startswith(prefix)
startswith(s, prefix) ==
    /\ Len(s) >= Len(prefix)
    /\ SubSeq(s, 1, Len(prefix)) = prefix

\* number of consecutive characters of s from position i on that satisfy the class
RECURSIVE RunLen(_, _, _)
RunLen(s, i, class) ==
    IF i > Len(s) THEN 0
    ELSE IF (class = "digit" /\ s[i] \in Digit) \/ (class = "space" /\ IsSpace(s[i]))
         THEN 1 + RunLen(s, i + 1, class)
         ELSE 0

\* s[i..i+n-1] are all digits
DigitsAt(s, i, n) == i + n - 1 <= Len(s) /\ \A k \in i..(i + n - 1) : s[k] \in Digit

\* \d{2}/\d{2} at position i
IsDateAt(s, i) ==
    /\ i >= 1
    /\ i + 4 <= Len(s)
    /\ DigitsAt(s, i, 2)
    /\ s[i + 2] = "/"
    /\ DigitsAt(s, i + 3, 2)

\* \d{3}-\d{3}-\d{4} at position i
IsPhoneAt(s, i) ==
    /\ i >= 1
    /\ i + 11 <= Len(s)
    /\ DigitsAt(s, i, 3)
    /\ s[i + 3] = "-"
    /\ DigitsAt(s, i + 4, 3)
    /\ s[i + 7] = "-"
    /\ DigitsAt(s, i + 8, 4)

\* \d{3}-\d{7} at position i
IsPhone7At(s, i) ==
    /\ i >= 1
    /\ i + 10 <= Len(s)
    /\ DigitsAt(s, i, 3)
    /\ s[i + 3] = "-"
    /\ DigitsAt(s, i + 4, 7)

\* \b before position i (s[i] is a word character) and \b after position j
BoundaryBefore(s, i) == i = 1 \/ ~IsWord(s[i - 1])

BoundaryAfter(s, j) == j = Len(s) \/ ~IsWord(s[j + 1])

\* re.sub(r"\s+\d{2}/\d{2}$", "", s): the date must end the string and follow
\* at least one whitespace; the whole whitespace run before it goes too
StripTrailingDate(s) ==
    LET n == Len(s)
    IN  IF n >= 6 /\ IsDateAt(s, n - 4) /\ IsSpace(s[n - 5])
        THEN LET start == Min({j \in 1..(n - 5) : \A k \in j..(n - 5) : IsSpace(s[k])})
             IN  SubSeq(s, 1, start - 1)
        ELSE s

\* length of the match of the named pattern that starts at position i, 0 if none
MatchLen(pat, s, i) ==
    CASE pat = "ticket" ->   \* #\d+
            IF s[i] = "#" /\ RunLen(s, i + 1, "digit") >= 1
            THEN 1 + RunLen(s, i + 1, "digit") ELSE 0
      [] pat = "phone7" ->   \* \b\d{3}-\d{7}\b
            IF IsPhone7At(s, i) /\ BoundaryBefore(s, i) /\ BoundaryAfter(s, i + 10)
            THEN 11 ELSE 0
      [] pat = "phone" ->    \* \b\d{3}-\d{3}-\d{4}\b
            IF IsPhoneAt(s, i) /\ BoundaryBefore(s, i) /\ BoundaryAfter(s, i + 11)
            THEN 12 ELSE 0
      [] pat = "digits" ->   \* \b\d{5,}\b
            LET r == RunLen(s, i, "digit")
            IN  IF r >= 5 /\ BoundaryBefore(s, i) /\ BoundaryAfter(s, i + r - 1)
                THEN r ELSE 0
      [] pat = "spaces" ->   \* \s{2,}
            LET r == RunLen(s, i, "space")
            IN  IF r >= 2 THEN r ELSE 0

\* re.sub(pattern, repl, s) from position i on: leftmost matches, not overlapping
RECURSIVE ReSub(_, _, _, _)
ReSub(pat, repl, s, i) ==
    IF i > Len(s) THEN <<>>
    ELSE LET n == MatchLen(pat, s, i)
         IN  IF n > 0 THEN repl \o ReSub(pat, repl, s, i + n)
             ELSE <<s[i]>> \o ReSub(pat, repl, s, i + 1)

\* re.sub(r"(?<=\s)\*(?=\s|$)", " ", s)
SubStrayStar(s) ==
    [i \in 1..Len(s) |->
        IF /\ s[i] = "*"
           /\ i > 1
           /\ IsSpace(s[i - 1])
           /\ (i = Len(s) \/ IsSpace(s[i + 1]))
        THEN " " ELSE s[i]]

\* re.split(r"\s{2,}", s)
RECURSIVE ReSplitSpaces(_)
ReSplitSpaces(s) ==
    LET seps == {i \in 1..Len(s) : MatchLen("spaces", s, i) > 0}
    IN  IF seps = {} THEN <<s>>
        ELSE LET i == Min(seps)
                 n == MatchLen("spaces", s, i)
             IN  <<SubSeq(s, 1, i - 1)>> \o ReSplitSpaces(SubSeq(s, i + n, Len(s)))

(***************************************************************************)
(* utils.normalize_payee                                                   *)
(***************************************************************************)
PAYPAL == <<"P", "A", "Y", "P", "A", "L">>

VENMO == <<"V", "E", "N", "M", "O">>

CASH_APP == <<"C", "A", "S", "H", " ", "A", "P", "P">>

ZELLE == <<"Z", "E", "L", "L", "E">>

AGGREGATOR_KEYWORDS == <<PAYPAL, VENMO, CASH_APP, ZELLE>>

AMZN_DIGITAL == <<"A", "M", "Z", "N", " ", "D", "I", "G", "I", "T", "A", "L">>

AMAZON_DIGITAL == <<"A", "M", "A", "Z", "O", "N", " ", "D", "I", "G", "I", "T", "A", "L">>

\* positions of a '*' immediately followed by NNN-NNN-NNNN
StarPhoneAt(s) == {i \in 1..Len(s) : s[i] = "*" /\ IsPhoneAt(s, i + 1)}

\* re.match(r"^(.*)\*\d{3}-\d{3}-\d{4}", s).group(1): the greedy .* runs to the last such '*'
StarPhoneGroup(s) == SubSeq(s, 1, Max(StarPhoneAt(s)) - 1)

\* the first keyword of AGGREGATOR_KEYWORDS that s starts with, 0 if none
AggregatorIndex(s) ==
    LET hits == {k \in 1..Len(AGGREGATOR_KEYWORDS) : startswith(s, AGGREGATOR_KEYWORDS[k])}
    IN  IF hits = {} THEN 0 ELSE Min(hits)

\* lines 142-148: the aggregator branch, taken when payee_no_date starts with keyword
AggregatorResult(payee, keyword) ==
    LET parts == ReSplitSpaces(payee)
    IN  IF Len(parts) >= 3
        THEN strip(StripTrailingDate(parts[3]))
        ELSE keyword

\* lines 155-163: the generic clean-up
GenericCleanup(payee_no_date) ==
    LET s1 == ReSub("ticket", <<>>, payee_no_date, 1)
        s2 == ReSub("phone7", <<>>, s1, 1)
        s3 == ReSub("phone", <<>>, s2, 1)
        s4 == ReSub("digits", <<>>, s3, 1)
        s5 == SubStrayStar(s4)
        s6 == ReSub("spaces", <<" ">>, s5, 1)
    IN  strip(s6)

\* normalize_payee on a str, lines 131-163 (line 128 returns a non-str unchanged)
normalize_payee(raw) ==
    LET payee == upper(raw)
        payee_no_date == StripTrailingDate(payee)
        k == AggregatorIndex(payee_no_date)
    IN  IF StarPhoneAt(payee_no_date) # {}
        THEN strip(StarPhoneGroup(payee_no_date))
        ELSE IF k # 0
        THEN AggregatorResult(payee, AGGREGATOR_KEYWORDS[k])
        ELSE IF startswith(payee_no_date, AMZN_DIGITAL) \/ startswith(payee_no_date, AMAZON_DIGITAL)
        THEN AMZN_DIGITAL
        ELSE GenericCleanup(payee_no_date)

\* payees of the statements and ledgers modelled
UBER == <<"U", "B", "E", "R">>

UBER_DATED == <<"U", "B", "E", "R", " ", "0", "1", "/", "0", "2">>

UBER_TRIP == <<"U", "B", "E", "R", " ", "T", "R", "I", "P">>

\* normalize_payee over the payees of the tables modelled, evaluated once
TablePayees == {UBER, UBER_DATED, UBER_TRIP}

NormalizedPayee == [p \in TablePayees |-> normalize_payee(p)]

(***************************************************************************)
(* Values of the tables                                                    *)
(***************************************************************************)
\* a cell of the amount column as text in a CSV file: the number, and whether the
\* text carries a decimal point ("5" against "5.0"); str() of an amount has the same shape
AmountText(value, dtype) == [val |-> value, dec |-> dtype = "float64"]

\* pandas' dtype inference for a numeric CSV column: int64 unless some cell has a point
InferDtype(cells) ==
    IF \E i \in 1..Len(cells) : cells[i].dec THEN "float64" ELSE "int64"

\* the dtype of the amount column of pd.concat([existing, one_row]): an empty frame's
\* column decides nothing, int64 meets float64 in float64
ConcatDtype(table, dtype) ==
    IF table.rows = <<>> THEN dtype
    ELSE IF table.amount_dtype = "int64" /\ dtype = "int64" THEN "int64"
    ELSE "float64"

\* pd.to_datetime on a column of dates: text "YYYY-MM-DD" and Timestamps both
\* become Timestamps of the same day
to_datetime(d) == <<"Timestamp", d[2]>>

\* a datetime cell as to_csv writes it
DateText(d) == <<"ymd", d[2]>>

\* an empty text cell is read back as NaN, and NaN is written as an empty cell
ReadCell(x) == IF x = "" THEN NaN ELSE x

WriteCell(x) == IF x = NaN THEN "" ELSE x

notna(x) == x # NaN

SeqToSet(s) == {s[i] : i \in 1..Len(s)}

\* the elements of s that satisfy Keep, in order
RECURSIVE SelectRows(_, _)
SelectRows(s, keep) ==
    IF s = <<>> THEN <<>>
    ELSE (IF Head(s) \in keep THEN <<Head(s)>> ELSE <<>>) \o SelectRows(Tail(s), keep)

\* Series.unique(): first occurrences, in order
RECURSIVE unique(_)
unique(s) ==
    IF s = <<>> THEN <<>>
    ELSE LET front == unique(SubSeq(s, 1, Len(s) - 1))
             last == s[Len(s)]
         IN  IF last \in SeqToSet(front) THEN front ELSE Append(front, last)

\* Series.dropna()
RECURSIVE dropna(_)
dropna(s) ==
    IF s = <<>> THEN <<>>
    ELSE (IF notna(Head(s)) THEN <<Head(s)>> ELSE <<>>) \o dropna(Tail(s))

Column(rows, name) == [i \in 1..Len(rows) |-> rows[i][name]]

RECURSIVE SumSeq(_)
SumSeq(s) == IF s = <<>> THEN 0 ELSE Head(s) + SumSeq(Tail(s))

\* code points, in order, of the characters modelled: Python compares str by code point
AsciiOrder ==
    <<" ", "#", "*", "-", "/">> \o <<"0", "1", "2", "3", "4", "5", "6", "7", "8", "9">>
    \o UpperSeq \o <<"_">> \o LowerSeq

Ord(c) == CHOOSE k \in 1..Len(AsciiOrder) : AsciiOrder[k] = c

RECURSIVE StrLess(_, _)
StrLess(a, b) ==
    IF b = <<>> THEN FALSE
    ELSE IF a = <<>> THEN TRUE
    ELSE IF Head(a) = Head(b) THEN StrLess(Tail(a), Tail(b))
    ELSE Ord(Head(a)) < Ord(Head(b))

\* the elements of a set of strings in ascending order (groupby sorts its keys)
RECURSIVE SortedKeys(_)
SortedKeys(S) ==
    IF S = {} THEN <<>>
    ELSE LET least == CHOOSE x \in S : \A y \in S \ {x} : StrLess(x, y)
         IN  <<least>> \o SortedKeys(S \ {least})

(***************************************************************************)
(* llm.normalize_payees                                                    *)
(***************************************************************************)
\* json.loads(text): text that is no JSON raises; any JSON value is returned as it is
\* parsed, whether an object or not
JsonParses(response) == response.kind # "text"

\* lines 102-123; payees is the list of keys, response the collaborator's output_text
normalize_payees(payees, response) ==
    IF payees = <<>> THEN [type |-> "dict", map |-> <<>>]
    ELSE IF JsonParses(response)
         THEN [type |-> response.kind, map |-> response.value]
         ELSE [type |-> "dict", map |-> [p \in SeqToSet(payees) |-> p]]

\* Series.replace(mapping) with a dict: a value that is a key is substituted
Replace(m, v) == IF v \in DOMAIN m.map THEN m.map[v] ELSE v

(***************************************************************************)
(* utils.save_table / utils.load_existing_table                            *)
(***************************************************************************)
\* a path of the directory holds no file, or a CSV file of some lines
NoFile == [exists |-> FALSE, lines |-> <<>>]

File(lines) == [exists |-> TRUE, lines |-> lines]

OUTPUT_SUFFIX == "output_table.csv"

\* lines 39-44 and 61-66: the file a call reads or writes
\* one file for every account scope
TablePath_shared(path, account_type) ==
    IF path # None THEN path ELSE "data/" \o OUTPUT_SUFFIX

TablePath(path, account_type) ==
    IF path # None THEN path
    ELSE IF account_type # None /\ account_type # ""
         THEN "data/" \o account_type \o "_" \o OUTPUT_SUFFIX
         ELSE "data/" \o OUTPUT_SUFFIX

\* df.to_csv(index=False): one line of text per row
to_csv(df) ==
    [i \in 1..Len(df.rows) |->
        [payee |-> df.rows[i].payee,
         date |-> DateText(df.rows[i].date),
         amount |-> AmountText(df.rows[i].amount, df.amount_dtype),
         note |-> WriteCell(df.rows[i].note),
         category |-> WriteCell(df.rows[i].category)]]

\* pd.read_csv(path), lines 68-73; a missing file gives the empty table
read_csv(file) ==
    LET lines == file.lines
    IN
    IF ~file.exists THEN [rows |-> <<>>, amount_dtype |-> "object"]
    ELSE [rows |-> [i \in 1..Len(lines) |->
                       [payee |-> lines[i].payee,
                        date |-> lines[i].date,
                        amount |-> lines[i].amount.val,
                        note |-> ReadCell(lines[i].note),
                        category |-> ReadCell(lines[i].category)]],
          amount_dtype |-> IF lines = <<>> THEN "object" ELSE InferDtype(Column(lines, "amount"))]

\* a save that writes nothing
save_table_lost(files, df, path, account_type) == files

\* save_table: the new content of the directory
save_table(files, df, path, account_type) ==
    [files EXCEPT ![TablePath(path, account_type)] = File(to_csv(df))]

\* the keys load_existing_table hands to the resolver (line 81); every payee of the
\* tables modelled is a str, so dropna() drops nothing
ResolverKeys(files, path, account_type) ==
    LET rows == read_csv(files[TablePath(path, account_type)]).rows
    IN  unique([i \in 1..Len(rows) |-> NormalizedPayee[rows[i].payee]])

\* load_existing_table, lines 61-87; m is what llm_normalize_payees returned
load_existing_table(files, path, account_type, m) ==
    LET df == read_csv(files[TablePath(path, account_type)])
    IN  [df EXCEPT !.rows =
            [i \in 1..Len(df.rows) |->
                [payee |-> df.rows[i].payee,
                 date |-> df.rows[i].date,
                 amount |-> df.rows[i].amount,
                 note |-> df.rows[i].note,
                 category |-> df.rows[i].category,
                 normalized_payee |-> Replace(m, NormalizedPayee[df.rows[i].payee])]]]

(***************************************************************************)
(* utils.confirm_category and the prompts of app.main                      *)
(***************************************************************************)
PERSONAL == "PERSONAL"

PERSONAL_NOTE == "Personal expense"

\* confirm_category: override is the operator's line, already stripped
confirm_category(suggested, override) == IF override # "" THEN override ELSE suggested

\* str.isdigit() and int() on the menu choices modelled
isdigit(choice) == choice \in {"0", "1", "9"}

int(choice) == CASE choice = "0" -> 0 [] choice = "1" -> 1 [] choice = "9" -> 9

\* cat_rows.iloc[-1]["note"] (lines 62-65 and 84-87), "" when it is null
LastNote(payee_history, category) ==
    LET at == {i \in 1..Len(payee_history) : payee_history[i].category = category}
        last_note == payee_history[Max(at)].note
    IN  IF notna(last_note) THEN last_note ELSE ""

\* lines 46-98: the default category and note of a vendor group. choice is the
\* operator's menu answer (stripped, lower-cased), note the description typed,
\* llm what categorize_expense returns for it
DefaultDecision(account_type, payee_history, choice, note, llm) ==
    LET used_categories == unique(dropna(Column(payee_history, "category")))
        personal == [category |-> PERSONAL, note |-> PERSONAL_NOTE]
        fresh == [category |-> llm, note |-> note]
        reuse(c) == [category |-> c, note |-> LastNote(payee_history, c)]
    IN  IF account_type = "personal" THEN personal
        ELSE IF Len(used_categories) = 0 THEN fresh
        ELSE IF Len(used_categories) = 1
             THEN IF choice = "y" THEN reuse(used_categories[1])
                  ELSE IF choice = "p" THEN personal
                  ELSE fresh
        ELSE IF isdigit(choice)
             THEN IF 0 <= int(choice) /\ int(choice) < Len(used_categories)
                  THEN reuse(used_categories[int(choice) + 1])
                  ELSE fresh
             ELSE IF choice = "p" THEN personal
             ELSE fresh

\* lines 101-103 and 109-113: abs(amount - mean) > 2 * std with std > 0 and not null,
\* over the sample standard deviation of amounts (null for fewer than two values).
\* With n values of sum S and sum of squares Q: std > 0 iff n*Q - S*S > 0, and
\* (amount - S/n)^2 > 4 * (n*Q - S*S) / (n*(n-1)) cleared of its denominators
is_outlier(amounts, amount) ==
    LET n == Len(amounts)
        S == SumSeq(amounts)
        Q == SumSeq([i \in 1..n |-> amounts[i] * amounts[i]])
    IN  /\ n >= 2
        /\ n * Q - S * S > 0
        /\ (n * amount - S) * (n * amount - S) * (n - 1) > 4 * n * (n * Q - S * S)

\* lines 115-131: the category and note of one row of the group. line is the operator's
\* answer to the unusual-amount prompt, llm what categorize_expense returns for it
RowDecision(group, amount, line, llm, override) ==
    LET chosen ==
            IF is_outlier(group.amounts_history, amount)
            THEN IF line.p_prefix
                 THEN [category |-> PERSONAL, note |-> line.text]
                 ELSE [category |-> llm, note |-> line.text]
            ELSE [category |-> group.default_category, note |-> group.default_note]
    IN  [category |-> confirm_category(chosen.category, override), note |-> chosen.note]

\* lines 28-33: f"{r['payee']}|{r['date']}|{r['amount']}" for a row of a table whose
\* amount column has the given dtype
transaction_key(r, dtype) == <<r.payee, <<"str", r.date[2]>>, AmountText(r.amount, dtype)>>

\* lines 20-25: a table with its dates parsed and normalized_payee set by the rules
Prepared(df) ==
    [df EXCEPT !.rows =
        [i \in 1..Len(df.rows) |->
            [payee |-> df.rows[i].payee,
             date |-> to_datetime(df.rows[i].date),
             amount |-> df.rows[i].amount,
             note |-> df.rows[i].note,
             category |-> df.rows[i].category,
             normalized_payee |-> NormalizedPayee[df.rows[i].payee]]]]

\* lines 35-36
Unprocessed(ex, dt) ==
    LET processed_keys == {transaction_key(ex.rows[i], ex.amount_dtype) : i \in 1..Len(ex.rows)}
    IN  SelectRows(dt.rows, {r \in SeqToSet(dt.rows) :
                                transaction_key(r, dt.amount_dtype) \notin processed_keys})

\* lines 133-141: existing with the categorized row appended
WithRow(ex, group, row, decision, dtype) ==
    [rows |-> Append(ex.rows,
                  [payee |-> row.payee,
                   normalized_payee |-> group.payee,
                   date |-> row.date,
                   amount |-> row.amount,
                   note |-> decision.note,
                   category |-> decision.category]),
     amount_dtype |-> ConcatDtype(ex, dtype)]

(***************************************************************************)
(* The values the model draws its inputs from                              *)
(***************************************************************************)
\* rows one session may append to the ledger, over all its runs
MaxAppend == 2

\* rows of one statement
MaxBatch == 2

AccountTypes == {"business", "personal"}

DefaultPath == TablePath(None, None)

Paths == {DefaultPath} \cup {TablePath(None, a) : a \in AccountTypes}

\* rows a bank statement may hold: payee, date, amount
BatchRows ==
    {[payee |-> p, date |-> <<"ymd", 4>>, amount |-> a, note |-> NaN, category |-> NaN] :
        p \in {UBER_DATED, UBER_TRIP}, a \in {5, 50}}

\* statements of one to MaxBatch rows whose amount column pandas read as int64
\* ("5") or as float64 ("5.00")
Batches ==
    {[rows |-> r, amount_dtype |-> d] :
        r \in UNION {[1..k -> BatchRows] : k \in 1..MaxBatch}, d \in {"int64", "float64"}}

EmptyTable == [rows |-> <<>>, amount_dtype |-> "object"]

NoGroup ==
    [payee |-> <<>>, display_payee |-> <<>>, rows |-> <<>>, idx |-> 0,
     default_category |-> "", default_note |-> "", amounts_history |-> <<>>]

NoMapping == [type |-> "dict", map |-> <<>>]

SeedLine(p, d, c) ==
    [payee |-> p, date |-> <<"ymd", d>>, amount |-> AmountText(5, "float64"),
     note |-> "ride", category |-> c]

\* a ledger earlier runs over float-typed statements left behind: five rides, two categories
SeedLedger ==
    <<SeedLine(UBER_DATED, 1, "Travel"), SeedLine(UBER, 1, "Travel"),
      SeedLine(UBER_DATED, 2, "Meals"), SeedLine(UBER, 2, "Travel"),
      SeedLine(UBER_DATED, 3, "Travel")>>

\* what the collaborator may answer to the resolver's request inside a run of main:
\* text that is no JSON, or a JSON object sending every key to one canonical name
RunResponses(keys) ==
    {[kind |-> "text", value |-> <<>>]}
    \cup (IF keys = <<>> THEN {} ELSE {[kind |-> "dict", value |-> [k \in SeqToSet(keys) |-> UBER]]})

Choices == {"y", "p", "", "0", "1", "9"}

Notes == {"taxi"}

LlmCategories == {"Travel", "Meals"}

Overrides == {"", "Office"}

Lines == {[p_prefix |-> b, text |-> "taxi"] : b \in BOOLEAN}

FileRows(file) == file.lines

(***************************************************************************)
(* app.main(data, account_type), run again and again over the statement    *)
(* and account type the session was given                                  *)
(***************************************************************************)
NoHistory == [appended |-> 0, startLen |-> 0, decided |-> 0]

MainInit ==
    /\ fs \in {[p \in Paths |-> IF p = DefaultPath THEN seed ELSE NoFile] :
                 seed \in {NoFile, File(SeedLedger)}}
    /\ pc = "idle"
    /\ data = EmptyTable
    /\ existing = EmptyTable
    /\ unprocessed = <<>>
    /\ todo = <<>>
    /\ cur = NoGroup
    /\ mapping = NoMapping
    /\ hist = NoHistory
    /\ args \in {[data |-> b, account_type |-> a] : b \in Batches, a \in AccountTypes}
    /\ ret = EmptyTable

\* lines 17-38: load the ledger, prepare both tables, keep the unprocessed rows
StartRun(response) ==
    /\ pc \in {"idle", "raised"}
    /\ LET m == normalize_payees(ResolverKeys(fs, None, None), response)
           ex == Prepared(load_existing_table(fs, None, None, m))
           dt == Prepared(args.data)
           un == Unprocessed(ex, dt)
       IN  /\ mapping' = m
           /\ existing' = ex
           /\ data' = dt
           /\ unprocessed' = un
           /\ todo' = SortedKeys(SeqToSet(Column(un, "normalized_payee")))
           /\ hist.appended + Len(un) <= MaxAppend
           /\ hist' = [hist EXCEPT !.startLen = Len(ex.rows), !.decided = 0]
    /\ pc' = "groups"
    /\ cur' = NoGroup
    /\ UNCHANGED <<fs, args, ret>>

\* lines 28-30 on a ledger without rows: DataFrame.apply(axis=1) of an empty frame
\* gives back a frame, not a column of keys, and pandas builds that refuse to set a
\* frame of several columns to the single column transaction_key raise ValueError;
\* the run ends before anything is read from the operator or written
StartRunRaises ==
    /\ pc \in {"idle", "raised"}
    /\ read_csv(fs[TablePath(None, None)]).rows = <<>>
    /\ pc' = "raised"
    /\ UNCHANGED <<fs, data, existing, unprocessed, todo, cur, mapping, hist, args, ret>>

\* lines 41-103: enter the next vendor group and take its default decision
NextGroup(choice, note, llm) ==
    /\ pc = "groups"
    /\ todo # <<>>
    /\ LET payee == Head(todo)
           group == SelectRows(unprocessed, {r \in SeqToSet(unprocessed) : r.normalized_payee = payee})
           payee_history == SelectRows(existing.rows,
                               {r \in SeqToSet(existing.rows) : r.normalized_payee = payee})
           d == DefaultDecision(args.account_type, payee_history, choice, note, llm)
       IN  cur' = [payee |-> payee,
                   display_payee |-> group[1].payee,
                   rows |-> group,
                   idx |-> 1,
                   default_category |-> d.category,
                   default_note |-> d.note,
                   amounts_history |-> Column(payee_history, "amount") \o Column(group, "amount")]
    /\ todo' = Tail(todo)
    /\ pc' = "rows"
    /\ UNCHANGED <<fs, data, existing, unprocessed, mapping, hist, args, ret>>

\* lines 105-145: categorize one row of the group, append it, save the ledger
CategorizeRow(line, llm, override) ==
    /\ pc = "rows"
    /\ LET row == cur.rows[cur.idx]
           d == RowDecision(cur, row.amount, line, llm, override)
           ex == WithRow(existing, cur, row, d, data.amount_dtype)
       IN  /\ existing' = ex
           /\ fs' = save_table(fs, ex, None, None)
    /\ cur' = [cur EXCEPT !.idx = @ + 1]
    /\ hist' = [hist EXCEPT !.decided = @ + 1, !.appended = @ + 1]
    /\ pc' = IF cur.idx = Len(cur.rows) THEN "groups" ELSE "rows"
    /\ UNCHANGED <<data, unprocessed, todo, mapping, args, ret>>

\* what a run leaves behind when it ends: only the files, and the statement it was given
Ended ==
    /\ pc' = "idle"
    /\ hist' = [hist EXCEPT !.startLen = 0, !.decided = 0]
    /\ data' = EmptyTable
    /\ existing' = EmptyTable
    /\ unprocessed' = <<>>
    /\ todo' = <<>>
    /\ cur' = NoGroup
    /\ mapping' = NoMapping
    /\ UNCHANGED <<fs, args, ret>>

\* line 41: the loop has no group left and main returns
Finish ==
    /\ pc = "groups"
    /\ todo = <<>>
    /\ Ended

\* the operator interrupts the run at a prompt
Interrupt ==
    /\ pc \in {"groups", "rows"}
    /\ ~(pc = "groups" /\ todo = <<>>)
    /\ Ended

Next ==
    \/ /\ pc \in {"idle", "raised"}
       /\ \E response \in RunResponses(ResolverKeys(fs, None, None)) : StartRun(response)
    \/ StartRunRaises
    \/ /\ pc = "groups"
       /\ \E choice \in Choices, note \in Notes, llm \in LlmCategories :
             NextGroup(choice, note, llm)
    \/ /\ pc = "rows"
       /\ \E line \in Lines, llm \in LlmCategories, override \in Overrides :
             CategorizeRow(line, llm, override)
    \/ Finish
    \/ Interrupt

Spec == MainInit /\ [][Next]_vars

(***************************************************************************)
(* Properties of the runs of app.main                                      *)
(***************************************************************************)
\* the identity of a transaction: raw payee, day, amount, as values
IdentityKey(payee, date, amount) == <<payee, date[2], amount>>

LedgerLines == FileRows(fs[DefaultPath])

LineKey(line) == IdentityKey(line.payee, line.date, line.amount.val)

RowKey(r) == IdentityKey(r.payee, r.date, r.amount)

\* C1: in every state reached by runs of main, no two rows of the persisted ledger
\* share the identity key (raw payee, date, amount), also when the incoming
\* statement itself holds the same key twice
C1_NoTwoRowsShareKey ==
    \A i, j \in 1..Len(LedgerLines) :
        i < j => LineKey(LedgerLines[i]) # LineKey(LedgerLines[j])

\* C2: a row whose identity key is already in the persisted ledger when a run
\* starts is not among the run's unprocessed rows, so it is neither prompted for
\* nor appended again
C2_SavedRowNotReprocessed ==
    pc \in {"groups", "rows"} =>
        \A k \in 1..Len(unprocessed) : \A i \in 1..hist.startLen :
            RowKey(unprocessed[k]) # RowKey(existing.rows[i])

\* C3: once a run has categorized a row of a vendor, every historical row of that
\* vendor with the same amount (hence of the same amount band) carries the note
\* and the category the run gave the new row
C3_DecisionReachesHistory ==
    pc \in {"groups", "rows"} =>
        \A i \in 1..hist.startLen : \A j \in (hist.startLen + 1)..Len(existing.rows) :
            (/\ existing.rows[i].normalized_payee = existing.rows[j].normalized_payee
             /\ existing.rows[i].amount = existing.rows[j].amount)
            => (/\ existing.rows[i].note = existing.rows[j].note
                /\ existing.rows[i].category = existing.rows[j].category)

\* the rows main groups: the historical table and the new-transaction table
RowsAtGrouping == SubSeq(existing.rows, 1, hist.startLen) \o data.rows

\* C4: when main groups the unprocessed rows, two rows (historical or new) whose
\* rule-normalized keys the resolver's mapping sends to the same canonical name
\* have equal normalized_payee values
C4_MappingApplied ==
    pc \in {"groups", "rows"} =>
        \A i, j \in 1..Len(RowsAtGrouping) :
            Replace(mapping, NormalizedPayee[RowsAtGrouping[i].payee])
                = Replace(mapping, NormalizedPayee[RowsAtGrouping[j].payee])
            => RowsAtGrouping[i].normalized_payee = RowsAtGrouping[j].normalized_payee

\* C6: between two rows of a run the persisted table equals the in-memory ledger
\* and holds the rows loaded plus exactly the rows categorized so far
C6_SavedAfterEachRow ==
    pc \in {"groups", "rows"} =>
        /\ LedgerLines = to_csv(existing)
        /\ Len(LedgerLines) = hist.startLen + hist.decided

\* a run that met a ledger of earlier rows has categorized one row, saved it, and
\* waits at the prompt of the next row of the same group
C6_Witness ==
    /\ pc = "rows"
    /\ hist.startLen > 0
    /\ hist.decided = 1
    /\ cur.idx = 2
    /\ Len(LedgerLines) = hist.startLen + 1

(***************************************************************************)
(* The amount bands of a vendor group                                      *)
(***************************************************************************)
RATIO == 3

Abs(x) == IF x < 0 THEN 0 - x ELSE x

RECURSIVE SortedInts(_)
SortedInts(S) == IF S = {} THEN <<>> ELSE <<Min(S)>> \o SortedInts(S \ {Min(S)})

\* the bands of sorted unique amounts: an amount joins the current band iff
\* amount / band_anchor <= ratio, the anchor being the band's smallest amount
RECURSIVE ClusterAmounts(_, _)
ClusterAmounts(sorted, bands) ==
    IF sorted = <<>> THEN bands
    ELSE LET amount == Head(sorted)
             band == IF bands = <<>> THEN <<>> ELSE bands[Len(bands)]
         IN  IF bands # <<>> /\ amount <= RATIO * band[1]
             THEN ClusterAmounts(Tail(sorted), [bands EXCEPT ![Len(bands)] = Append(band, amount)])
             ELSE ClusterAmounts(Tail(sorted), Append(bands, <<amount>>))

\* the rows of a group, by index, band by band
BandPartition(rows) ==
    LET bands == ClusterAmounts(SortedInts({Abs(rows[i].amount) : i \in 1..Len(rows)}), <<>>)
    IN  {{i \in 1..Len(rows) : Abs(rows[i].amount) \in SeqToSet(bands[b])} : b \in 1..Len(bands)}

\* how main splits a group (lines 105-129): the rows that take the group's default
\* decision together, and each row with an unusual amount on its own
MainPartition(group) ==
    LET odd == {i \in 1..Len(group.rows) : is_outlier(group.amounts_history, group.rows[i].amount)}
    IN  ({(1..Len(group.rows)) \ odd} \ {{}}) \cup {{i} : i \in odd}

\* C9: within a vendor group the transactions are partitioned into the amount bands
\* built from the sorted unique absolute amounts with the anchor-based ratio test
C9_GroupSplitIntoBands ==
    pc = "rows" => MainPartition(cur) = BandPartition(cur.rows)

(***************************************************************************)
(* utils.propagate_vendor_info                                             *)
(***************************************************************************)
\* a range test that leaves both ends out
between_open(x, low, high) == low < x /\ x < high

\* Series.between(low, high): inclusive on both sides
between(x, low, high) == low <= x /\ x <= high

\* lines 205-208: the rows the call selects
PropagateMask(df, normalized_payee, amount_range) ==
    {i \in 1..Len(df.rows) :
        /\ df.rows[i].normalized_payee = normalized_payee
        /\ (amount_range.given =>
                between(df.rows[i].amount, amount_range.low, amount_range.high))}

\* lines 205-211; amount_range.given is false for amount_range=None
propagate_vendor_info(df, normalized_payee, note, category, amount_range) ==
    LET mask == PropagateMask(df, normalized_payee, amount_range)
    IN  IF mask # {}
        THEN [df EXCEPT !.rows =
                [i \in 1..Len(df.rows) |->
                    IF i \in mask
                    THEN [df.rows[i] EXCEPT !.note = note, !.category = category]
                    ELSE df.rows[i]]]
        ELSE df

\* rows of the tables a call is tried on
MaxRows == 3

VendorRows ==
    {[payee |-> v, normalized_payee |-> v, date |-> <<"Timestamp", 1>>, amount |-> a,
      note |-> n, category |-> n] :
        v \in {"A", "B"}, a \in {1, 2, 3}, n \in {"", "old"}}

VendorTables ==
    {[rows |-> r, amount_dtype |-> "int64"] : r \in UNION {[1..k -> VendorRows] : k \in 0..MaxRows}}

AmountRanges ==
    {[given |-> FALSE, low |-> 0, high |-> 0], [given |-> TRUE, low |-> 1, high |-> 2]}

\* the variables of a run of main, at rest
MainAtRest ==
    /\ data = EmptyTable
    /\ existing = EmptyTable
    /\ unprocessed = <<>>
    /\ todo = <<>>
    /\ cur = NoGroup
    /\ mapping = NoMapping

NoFiles == [p \in Paths |-> NoFile]

PropagateInit ==
    /\ MainAtRest
    /\ hist = NoHistory
    /\ fs = NoFiles
    /\ pc = "call"
    /\ args \in {[df |-> t, normalized_payee |-> v, note |-> "Coffee", category |-> "Meals",
                  amount_range |-> ar] :
                    t \in VendorTables, v \in {"A", "B"}, ar \in AmountRanges}
    /\ ret = EmptyTable

Propagate ==
    /\ pc = "call"
    /\ ret' = propagate_vendor_info(args.df, args.normalized_payee, args.note,
                                    args.category, args.amount_range)
    /\ pc' = "done"
    /\ UNCHANGED <<fs, data, existing, unprocessed, todo, cur, mapping, hist, args>>

PropagateNext == Propagate

PropagateSpec == PropagateInit /\ [][PropagateNext]_vars

\* C5: the call overwrites note and category on exactly the rows of the vendor whose
\* amount lies in the inclusive range (every row of the vendor without a range);
\* every other row, every other column, the number and the order of rows are unchanged
C5_PropagateExactRows ==
    pc = "done" =>
        /\ Len(ret.rows) = Len(args.df.rows)
        /\ ret.amount_dtype = args.df.amount_dtype
        /\ \A i \in 1..Len(ret.rows) :
            LET before == args.df.rows[i]
                after == ret.rows[i]
                hit == /\ before.normalized_payee = args.normalized_payee
                       /\ (args.amount_range.given =>
                            /\ args.amount_range.low <= before.amount
                            /\ before.amount <= args.amount_range.high)
            IN  /\ after.payee = before.payee
                /\ after.normalized_payee = before.normalized_payee
                /\ after.date = before.date
                /\ after.amount = before.amount
                /\ hit => (after.note = args.note /\ after.category = args.category)
                /\ ~hit => (after.note = before.note /\ after.category = before.category)

\* a call with a range has relabelled a row whose amount is the upper end of the
\* range, and left alone a row of the vendor beyond the range and a row of another vendor
C5_Witness ==
    /\ pc = "done"
    /\ args.amount_range.given
    /\ \E i, j, k \in 1..Len(ret.rows) :
        /\ args.df.rows[i].normalized_payee = args.normalized_payee
        /\ args.df.rows[i].amount = args.amount_range.high
        /\ args.df.rows[i].note = "old"
        /\ ret.rows[i].note = "Coffee"
        /\ args.df.rows[j].normalized_payee = args.normalized_payee
        /\ args.df.rows[j].amount > args.amount_range.high
        /\ ret.rows[j].note = "old"
        /\ args.df.rows[k].normalized_payee # args.normalized_payee
        /\ ret.rows[k] = args.df.rows[k]

(***************************************************************************)
(* llm.normalize_payees on its own                                         *)
(***************************************************************************)
\* keys of one batch handed to the resolver
MaxPayees == 2

LYFT == <<"L", "Y", "F", "T">>

ResolverPayees == {UBER, UBER_TRIP, LYFT}

PayeeLists == UNION {[1..k -> ResolverPayees] : k \in 0..MaxPayees}

\* what response.output_text may hold: text json.loads rejects, a JSON object of
\* strings, the empty JSON array, the JSON literal null
Responses(payees) ==
    {[kind |-> "text", value |-> <<>>],
     [kind |-> "list", value |-> <<>>],
     [kind |-> "NoneType", value |-> <<>>]}
    \cup {[kind |-> "dict", value |-> f] : f \in [SeqToSet(payees) -> {UBER, LYFT}]}

LlmInit ==
    /\ MainAtRest
    /\ hist = NoHistory
    /\ fs = NoFiles
    /\ pc = "call"
    /\ args \in UNION {{[payees |-> ps, response |-> r] : r \in Responses(ps)} : ps \in PayeeLists}
    /\ ret = EmptyTable

NormalizePayees ==
    /\ pc = "call"
    /\ ret' = normalize_payees(args.payees, args.response)
    /\ pc' = "done"
    /\ UNCHANGED <<fs, data, existing, unprocessed, todo, cur, mapping, hist, args>>

LlmNext == NormalizePayees

LlmSpec == LlmInit /\ [][LlmNext]_vars

\* the response is a JSON object whose values are strings
ValidMapping(response) == response.kind = "dict"

\* C7: when the response is not a valid mapping of strings to strings, the result
\* is the identity mapping over the input keys
C7_MalformedGivesIdentity ==
    (pc = "done" /\ ~ValidMapping(args.response)) =>
        /\ ret.type = "dict"
        /\ DOMAIN ret.map = SeqToSet(args.payees)
        /\ \A p \in SeqToSet(args.payees) : ret.map[p] = p

(***************************************************************************)
(* save_table and load_existing_table under account scopes                 *)
(***************************************************************************)
\* the account_type values a caller passes: the default None, the empty string,
\* and the two named scopes
ScopeArgs == {None, ""} \cup AccountTypes

Scopes == {"default"} \cup AccountTypes

Scope(account_type) == IF account_type \in {None, ""} THEN "default" ELSE account_type

StoreRow(p, a, n, c) ==
    [payee |-> p, date |-> <<"Timestamp", 1>>, amount |-> a, note |-> n, category |-> c]

StoreTables ==
    {EmptyTable,
     [rows |-> <<StoreRow(UBER, 5, "ride", "Travel")>>, amount_dtype |-> "int64"],
     [rows |-> <<StoreRow(UBER_TRIP, 50, NaN, NaN)>>, amount_dtype |-> "float64"],
     [rows |-> <<StoreRow(UBER_TRIP, 50, NaN, NaN), StoreRow(UBER, 5, "ride", "Travel")>>,
      amount_dtype |-> "int64"]}

StoreInit ==
    /\ MainAtRest
    /\ hist = [s \in Scopes |-> EmptyTable]
    /\ fs = NoFiles
    /\ pc = "idle"
    /\ args = [op |-> "none", account_type |-> None]
    /\ ret = EmptyTable

\* save_table(df, account_type=account_type); hist keeps the table last saved
\* under each scope
Save(df, account_type) ==
    /\ fs' = save_table(fs, df, None, account_type)
    /\ hist' = [hist EXCEPT ![Scope(account_type)] = df]
    /\ args' = [op |-> "save", account_type |-> account_type]
    /\ pc' = "saved"
    /\ UNCHANGED <<data, existing, unprocessed, todo, cur, mapping, ret>>

\* load_existing_table(account_type=account_type)
Load(account_type, response) ==
    /\ ret' = load_existing_table(fs, None, account_type,
                    normalize_payees(ResolverKeys(fs, None, account_type), response))
    /\ args' = [op |-> "load", account_type |-> account_type]
    /\ pc' = "loaded"
    /\ UNCHANGED <<fs, data, existing, unprocessed, todo, cur, mapping, hist>>

StoreNext ==
    \/ \E df \in StoreTables, account_type \in ScopeArgs : Save(df, account_type)
    \/ \E account_type \in ScopeArgs :
        \E response \in RunResponses(ResolverKeys(fs, None, account_type)) :
            Load(account_type, response)

StoreSpec == StoreInit /\ [][StoreNext]_vars

\* C8: a load under a scope returns the rows of the most recent save under that
\* scope (as many, in the same order, with the payee, date, amount, note and
\* category that the save wrote), whatever was saved under the other scopes since
C8_ScopeIsolation ==
    /\ pc = "loaded" => to_csv(ret) = to_csv(hist[Scope(args.account_type)])
    /\ \A a \in ScopeArgs :
        to_csv(load_existing_table(fs, None, a, NoMapping)) = to_csv(hist[Scope(a)])

\* the business scope is loaded and gives its own rows while the personal and the
\* default scope hold other rows
C8_Witness ==
    /\ pc = "loaded"
    /\ args.account_type = "business"
    /\ Len(ret.rows) = 1
    /\ Len(hist["personal"].rows) = 2
    /\ Len(hist["default"].rows) = 1
    /\ hist["default"] # hist["business"]

(***************************************************************************)
(* normalize_payee on aggregator memos                                     *)
(***************************************************************************)
\* fields of one memo
MaxFields == 3

XFER == <<"X", "F", "E", "R">>

EBAY_DATED == <<"E", "B", "A", "Y", " ", "0", "9", "/", "3", "0">>

MM_DD == <<"0", "9", "/", "3", "0">>

STAR_PHONE == <<"*", "8", "0", "0", "-", "8", "3", "3", "-", "6", "6", "8", "7">>

venmo == <<"v", "e", "n", "m", "o">>

FirstFields == {PAYPAL, venmo, UBER}

Fields == {XFER, EBAY_DATED, MM_DD, STAR_PHONE, <<>>}

Separators == {<<" ">>, <<" ", " ">>}

RECURSIVE MemosOf(_)
\* memos of n fields: a leading word, then fields after one or two spaces
MemosOf(n) ==
    IF n = 1 THEN FirstFields
    ELSE {m \o sep \o f : m \in MemosOf(n - 1), sep \in Separators, f \in Fields}

Memos == UNION {MemosOf(n) : n \in 1..MaxFields}

NormalizeInit ==
    /\ MainAtRest
    /\ hist = NoHistory
    /\ fs = NoFiles
    /\ pc = "call"
    /\ args \in {[payee |-> m] : m \in Memos}
    /\ ret = EmptyTable

NormalizePayee ==
    /\ pc = "call"
    /\ ret' = normalize_payee(args.payee)
    /\ pc' = "done"
    /\ UNCHANGED <<fs, data, existing, unprocessed, todo, cur, mapping, hist, args>>

NormalizeNext == NormalizePayee

NormalizeSpec == NormalizeInit /\ [][NormalizeNext]_vars

\* s is, or ends with, a MM/DD date
EndsWithDate(s) == IsDateAt(s, Len(s) - 4)

\* C10: for a memo that starts with an aggregator keyword and is not caught by the
\* star-phone rule, the result is the trimmed 3rd field of the split on runs of 2+
\* spaces with its trailing date removed, and neither is nor ends with a MM/DD
\* date; with fewer than 3 fields it is the bare keyword
C10_AggregatorThirdField ==
    LET memo == upper(args.payee)
        k == AggregatorIndex(memo)
        parts == ReSplitSpaces(memo)
    IN  (pc = "done" /\ k # 0 /\ StarPhoneAt(StripTrailingDate(memo)) = {}) =>
            IF Len(parts) >= 3
            THEN /\ ret = strip(StripTrailingDate(parts[3]))
                 /\ ~EndsWithDate(ret)
            ELSE ret = AGGREGATOR_KEYWORDS[k]

(***************************************************************************)
(* utils.generate_summary                                                  *)
(***************************************************************************)
\* rows of the tables summarized
MaxSummaryRows == 3

\* the keys of groupby("category", dropna=False) in the order groupby gives them:
\* the labels ascending, the null key last
SummaryKeys == <<"Meals", "Office", NaN>>

SUMMARY_COLUMNS == <<"category", "total_amount">>

\* line 220, groupby("category")["amount"].sum() with null keys dropped
GroupKeys_dropna(df) ==
    SelectSeq(SummaryKeys,
              LAMBDA c : c # NaN /\ \E i \in 1..Len(df.rows) : df.rows[i].category = c)

\* line 220: the keys of the groups, dropna=False keeps the null key
GroupKeys(df) ==
    SelectSeq(SummaryKeys, LAMBDA c : \E i \in 1..Len(df.rows) : df.rows[i].category = c)

\* lines 217-222
generate_summary(df) ==
    IF df.rows = <<>>
    THEN [columns |-> SUMMARY_COLUMNS, rows |-> <<>>]
    ELSE LET keys == GroupKeys(df)
         IN  [columns |-> SUMMARY_COLUMNS,
              rows |-> [k \in 1..Len(keys) |->
                          [category |-> keys[k],
                           total_amount |->
                              SumSeq(Column(SelectRows(df.rows,
                                        {r \in SeqToSet(df.rows) : r.category = keys[k]}),
                                     "amount"))]]]

SummaryRows ==
    {[payee |-> UBER, date |-> <<"Timestamp", 1>>, amount |-> a, note |-> NaN, category |-> c] :
        a \in {0 - 5, 10, 20}, c \in {"Meals", "Office", NaN}}

SummaryTables ==
    {[rows |-> r, amount_dtype |-> "int64"] :
        r \in UNION {[1..k -> SummaryRows] : k \in 0..MaxSummaryRows}}

SummaryInit ==
    /\ MainAtRest
    /\ hist = NoHistory
    /\ fs = NoFiles
    /\ pc = "call"
    /\ args \in {[df |-> t] : t \in SummaryTables}
    /\ ret = EmptyTable

GenerateSummary ==
    /\ pc = "call"
    /\ ret' = generate_summary(args.df)
    /\ pc' = "done"
    /\ UNCHANGED <<fs, data, existing, unprocessed, todo, cur, mapping, hist, args>>

SummaryNext == GenerateSummary

SummarySpec == SummaryInit /\ [][SummaryNext]_vars

\* the sum of amount over the rows of df whose category is c
CategoryTotal(df, c) ==
    SumSeq([i \in 1..Len(df.rows) |->
                IF df.rows[i].category = c THEN df.rows[i].amount ELSE 0])

\* C11: the summary has the columns category and total_amount and, for each
\* category value of the table (the null category being one value), exactly one
\* row, whose total_amount is the sum of amount over the rows of that category;
\* it has no other row, the totals add up to the sum of all amounts, and an empty
\* table gives no row
C11_SummaryTotals ==
    pc = "done" =>
        LET df == args.df
            present == {df.rows[i].category : i \in 1..Len(df.rows)}
        IN  /\ ret.columns = <<"category", "total_amount">>
            /\ \A c \in present :
                /\ Cardinality({k \in 1..Len(ret.rows) : ret.rows[k].category = c}) = 1
                /\ \A k \in 1..Len(ret.rows) :
                    ret.rows[k].category = c => ret.rows[k].total_amount = CategoryTotal(df, c)
            /\ \A k \in 1..Len(ret.rows) : ret.rows[k].category \in present
            /\ SumSeq(Column(ret.rows, "total_amount")) = SumSeq(Column(df.rows, "amount"))
            /\ df.rows = <<>> => ret.rows = <<>>

\* a table with two Meals rows and an unlabeled row has been summarized: Meals has
\* one row with the sum of both, and the unlabeled rows have a row of their own
C11_Witness ==
    /\ pc = "done"
    /\ Len(args.df.rows) = 3
    /\ Cardinality({i \in 1..3 : args.df.rows[i].category = "Meals"}) = 2
    /\ \E k \in 1..Len(ret.rows) : ret.rows[k].category = "Meals" /\ ret.rows[k].total_amount = 30
    /\ \E k \in 1..Len(ret.rows) : ret.rows[k].category = NaN

(***************************************************************************)
(* load_existing_table over tables that are missing or cannot be parsed    *)
(***************************************************************************)
\* a file of zero bytes: it exists and holds no header line
EmptyFile == [exists |-> TRUE, lines |-> <<>>, bytes |-> 0]

\* the exception pd.read_csv(path) raises at line 69, None if it returns a frame:
\* a missing file raises FileNotFoundError, a file without a header line
\* pandas.errors.EmptyDataError
read_csv_raises(file) ==
    IF ~file.exists THEN "FileNotFoundError"
    ELSE IF "bytes" \in DOMAIN file THEN "EmptyDataError"
    ELSE None

\* lines 68-73: the try statement catches FileNotFoundError and nothing else
Caught == {"FileNotFoundError"}

\* a call of load_existing_table, lines 61-87: what it raises, or what it returns
LoadOutcome(files, path, account_type, response) ==
    LET e == read_csv_raises(files[TablePath(path, account_type)])
    IN  IF e # None /\ e \notin Caught
        THEN [raised |-> e, value |-> EmptyTable]
        ELSE [raised |-> None,
              value |-> load_existing_table(files, path, account_type,
                            normalize_payees(ResolverKeys(files, path, account_type), response))]

FileContents == {NoFile, EmptyFile} \cup {File(to_csv(t)) : t \in StoreTables}

LoadInit ==
    /\ MainAtRest
    /\ hist = NoHistory
    /\ fs \in [Paths -> FileContents]
    /\ pc = "call"
    /\ args \in {[account_type |-> a] : a \in ScopeArgs}
    /\ ret = EmptyTable

LoadTable(response) ==
    /\ pc = "call"
    /\ ret' = LoadOutcome(fs, None, args.account_type, response)
    /\ pc' = "done"
    /\ UNCHANGED <<fs, data, existing, unprocessed, todo, cur, mapping, hist, args>>

LoadNext ==
    \E response \in {[kind |-> "text", value |-> <<>>]}
                        \cup (IF read_csv_raises(fs[TablePath(None, args.account_type)]) = None
                              THEN RunResponses(ResolverKeys(fs, None, args.account_type))
                              ELSE {}) :
        LoadTable(response)

LoadSpec == LoadInit /\ [][LoadNext]_vars

\* C12: when the persisted table of the scope is missing or cannot be parsed,
\* load_existing_table does not raise and returns a table without rows
C12_BadTableLoadsEmpty ==
    (pc = "done" /\ read_csv_raises(fs[TablePath(None, args.account_type)]) # None) =>
        /\ ret.raised = None
        /\ ret.value.rows = <<>>

(***************************************************************************)
(* normalize_payee: the order of its rules                                 *)
(***************************************************************************)
\* tokens that follow the leading words of a memo
MaxTokens == 2

ADOBE == <<"A", "D", "O", "B", "E">>

amzn_digital == <<"A", "M", "Z", "N", " ", "D", "i", "g", "i", "t", "a", "l">>

SP_STAR_PHONE == <<" ", "*", "8", "0", "0", "-", "8", "3", "3", "-", "6", "6", "8", "7">>

SP_PHONE == <<" ", "8", "0", "0", "-", "8", "3", "3", "-", "6", "6", "8", "7">>

STAR_CODE == <<"*", "G", "M", "3", "C", "8", "3", "W", "E">>

SP_DATE == <<" ", "0", "2", "/", "1", "0">>

WIDE_FIELDS == <<" ", " ", "E", "B", "A", "Y", " ", " ", "S", "H", "O", "P">>

SP_TICKET_STAR == <<" ", "#", "1", "2", "3", " ", "*">>

LeadingWords == {ADOBE, amzn_digital, PAYPAL, AMAZON_DIGITAL}

Tokens == {SP_STAR_PHONE, STAR_PHONE, SP_PHONE, STAR_CODE, SP_DATE, WIDE_FIELDS, SP_TICKET_STAR}

RECURSIVE TokenMemos(_)
\* memos of leading words and n tokens
TokenMemos(n) ==
    IF n = 0 THEN LeadingWords
    ELSE {m \o tok : m \in TokenMemos(n - 1), tok \in Tokens}

\* what the payee column may hold: a str, or the float NaN / None of a missing cell
PayeeValues ==
    {[type |-> "str", value |-> m] : m \in UNION {TokenMemos(n) : n \in 0..MaxTokens}}
    \cup {[type |-> "float", value |-> <<>>], [type |-> "NoneType", value |-> <<>>]}

\* normalize_payee on any value, lines 128-163
normalize_payee_any(payee) ==
    IF payee.type # "str" THEN payee
    ELSE [type |-> "str", value |-> normalize_payee(payee.value)]

RulesInit ==
    /\ MainAtRest
    /\ hist = NoHistory
    /\ fs = NoFiles
    /\ pc = "call"
    /\ args \in {[payee |-> v] : v \in PayeeValues}
    /\ ret = EmptyTable

NormalizeAny ==
    /\ pc = "call"
    /\ ret' = normalize_payee_any(args.payee)
    /\ pc' = "done"
    /\ UNCHANGED <<fs, data, existing, unprocessed, todo, cur, mapping, hist, args>>

RulesNext == NormalizeAny

RulesSpec == RulesInit /\ [][RulesNext]_vars

\* C13: a non-string comes back unchanged; for a string the first rule that matches
\* the upper-cased, date-stripped memo alone gives the result: the trimmed text
\* before the '*' that a phone number follows, else the aggregator branch, else
\* "AMZN DIGITAL" for an Amazon Digital prefix, else the generic clean-up
C13_FirstRuleDecides ==
    pc = "done" =>
        IF args.payee.type # "str" THEN ret = args.payee
        ELSE LET memo == upper(args.payee.value)
                 s == StripTrailingDate(memo)
                 stars == StarPhoneAt(s)
                 k == AggregatorIndex(s)
             IN  /\ ret.type = "str"
                 /\ ret.value =
                        IF stars # {} THEN strip(SubSeq(s, 1, Min(stars) - 1))
                        ELSE IF k # 0 THEN AggregatorResult(memo, AGGREGATOR_KEYWORDS[k])
                        ELSE IF startswith(s, AMZN_DIGITAL) \/ startswith(s, AMAZON_DIGITAL)
                        THEN AMZN_DIGITAL
                        ELSE GenericCleanup(s)

====
